---- MODULE Spec2Model ----
(***************************************************************************)
(* A model of sc3/synth/node.py: the client-side mirror of the server's    *)
(* node tree (Node, AbstractGroup, Group, ParGroup, RootNode, Synth), the   *)
(* query_tree request with its one-shot reply listener and timeout, and    *)
(* the decoder of the flat '/g_queryTree.reply' payload.                    *)
(*                                                                         *)
(* The specifications share the variables:                                 *)
(*   SpecTree   the reply decoder applied to well-formed payloads           *)
(*   SpecQuery  query_tree requests, replies and timeouts                   *)
(*   Spec       the node mirror: constructors and free                      *)
(*   SpecCtl    run, release and the RootNode overrides                     *)
(*   SpecWatch  register, unregister and the server's notifications         *)
(*   SpecMove   the placement operations, with free, run and release        *)
(*   SpecSet    Synth.seti                                                  *)
(*   SpecRoots  RootNode(server) and the cache of root nodes                *)
(*   SpecTok    the add-action tokens of the constructors                   *)
(*   SpecFree   on_free, wait_for_free and the '/n_end' notification        *)
(*   SpecInfo   query, get and getn beside one query_tree                   *)
(***************************************************************************)
EXTENDS Integers, Sequences, FiniteSets, TLC

VARIABLES
    msg,      \* SpecTree: the reply payload handed to resp_func
    src,      \* SpecTree: the server-side tree the payload encodes
    res,      \* SpecTree: <<>>, then <<what resp_func did with msg>>
    reqs,     \* SpecQuery: the query_tree calls made, one record each
    wire,     \* SpecQuery: the '/g_queryTree' requests <<call, group, flag>> not answered yet
    out,      \* the effects of the last handler, in the order it made them
    nodes,    \* the node objects: object -> [kind, node_id, group, playing, running]
    watched,  \* the objects in the server's NodeWatcher
    reg,      \* the objects the caller registered and has not unregistered
    last,     \* the last call or notification: [op, obj, args, exc]
    cap,      \* how many nodes the caller may still create
    roots,    \* RootNode.roots: server name -> the root node object
    center,   \* NotificationCenter: the '/n_end' registrations, object -> callback
    cbs,      \* the callbacks passed to on_free, in the order of the calls
    info      \* the query, get and getn calls made, one record each

varsTree == <<msg, src, res>>

varsNodes == <<nodes, watched, reg, last, cap, roots, center, cbs, info>>

varsIdle == <<msg, src, res, reqs, wire, roots, center, cbs, info>>

varsCenter == <<center, cbs>>

vars == <<msg, src, res, reqs, wire, out, nodes, watched, reg, last, cap, roots, center, cbs,
          info>>

\* ------------------------------------------------------------------------
\* Bounds of the model.
\* ------------------------------------------------------------------------

\* Most nodes below the queried group in a generated reply.
MaxTreeNodes == 4
\* Most controls one synth reports.
MaxCtl == 2
\* Most query_tree calls made.
MaxReq == 2
\* Most nodes created by the caller in Spec.
MaxNodes == 2
\* Most nodes created by the caller in SpecCtl and in SpecWatch.
MaxCtlNodes == 1
MaxWatchNodes == 1
\* Times are counted in 1/TimeScale of a second, from -MaxTime to MaxTime.
TimeScale == 2
MaxTime == 5

\* ------------------------------------------------------------------------
\* Python values.
\* ------------------------------------------------------------------------

\* Python's None.
None == "None"

\* A Python list index: msg[k] is defined for -len <= k < len, and a
\* negative k counts from the end; anything else raises IndexError.
InRange(m, k) == k >= -Len(m) /\ k < Len(m)

At(m, k) == IF k >= 0 THEN m[k + 1] ELSE m[Len(m) + k + 1]

\* A dict keeps its keys in insertion order; d[k] = v replaces the value
\* of a key it already holds and appends a new key.  A dict is modelled as
\* the sequence of its <<key, value>> items.
HasKey(d, k) == \E n \in 1..Len(d) : d[n][1] = k

DictSet(d, k, v) ==
    IF HasKey(d, k)
    THEN [n \in 1..Len(d) |-> IF d[n][1] = k THEN <<k, v>> ELSE d[n]]
    ELSE Append(d, <<k, v>>)

\* ------------------------------------------------------------------------
\* The server's side of the reply (spec.md 4.3): the tree and its flat
\* encoding.  A tree node is [kind, id, def, ctl, ch]: ch the children of a
\* group, def and ctl (a sequence of <<name, value>>) those of a synth.
\* ------------------------------------------------------------------------

ReplyAddr == "/g_queryTree.reply"

\* Definition names, control names and control values are opaque scalars.
DefOf(id) == 100000 + id
CtlName(j) == 7000 + j
CtlValue(id, j) == 9000 + 10 * j + (id % 10)

CtlOf(id, c) == [j \in 1..c |-> <<CtlName(j), CtlValue(id, j)>>]

GroupNode(id, ch) == [kind |-> "g", id |-> id, def |-> 0, ctl |-> <<>>, ch |-> ch]
SynthNode(id, c) ==
    [kind |-> "s", id |-> id, def |-> DefOf(id), ctl |-> CtlOf(id, c), ch |-> <<>>]

\* Node ids are unique: the j-th child of node p is node 10 p + j.
ChildId(p, j) == 10 * p + j

RECURSIVE TreesOf(_, _), ForestsOf(_, _, _)
\* The trees of exactly k nodes whose root has the given id.
TreesOf(k, id) ==
    IF k = 1
    THEN {SynthNode(id, c) : c \in 0..MaxCtl} \cup {GroupNode(id, <<>>)}
    ELSE {GroupNode(id, f) : f \in ForestsOf(k - 1, id, 1)}

\* The forests of exactly n nodes that are children j, j+1, ... of node p.
ForestsOf(n, p, j) ==
    IF n = 0
    THEN {<<>>}
    ELSE UNION {{<<t>> \o f : t \in TreesOf(k, ChildId(p, j)),
                              f \in ForestsOf(n - k, p, j + 1)} : k \in 1..n}

RECURSIVE FlatCtl(_)
FlatCtl(ctl) ==
    IF ctl = <<>> THEN <<>> ELSE <<ctl[1][1], ctl[1][2]>> \o FlatCtl(Tail(ctl))

RECURSIVE EncodeNode(_, _), EncodeForest(_, _)
EncodeNode(t, flag) ==
    IF t.kind = "g"
    THEN <<t.id, Len(t.ch)>> \o EncodeForest(t.ch, flag)
    ELSE <<t.id, -1, t.def>>
         \o (IF flag = 1 THEN <<Len(t.ctl)>> \o FlatCtl(t.ctl) ELSE <<>>)

EncodeForest(f, flag) ==
    IF f = <<>> THEN <<>> ELSE EncodeNode(f[1], flag) \o EncodeForest(Tail(f), flag)

\* The reply to '/g_queryTree' for group t.
EncodeReply(t, flag) == <<ReplyAddr, flag>> \o EncodeNode(t, flag)

\* ------------------------------------------------------------------------
\* AbstractGroup.query_tree.resp_func: the decoder.
\* ------------------------------------------------------------------------

GroupKey(id) == <<"Group", id, 0>>
SynthKey(id, def) == <<"Synth", id, def>>

\* A decoding state: the cursor i, the dict being filled, whether an
\* IndexError was raised, and the positions read as control fields.
DState(i, d, err, reads) == [i |-> i, d |-> d, err |-> err, reads |-> reads]

Raised(st) == [st EXCEPT !.err = TRUE]

\* SkipEntry with the control count left out of the step (an off-by-one).
SkipEntryOffByOne(m, pc, st) ==
    IF ~InRange(m, st.i + 1) THEN Raised(st)
    ELSE IF At(m, st.i + 1) >= 0 THEN [st EXCEPT !.i = st.i + 2]
    ELSE IF pc
         THEN IF ~InRange(m, st.i + 3) THEN Raised(st)
              ELSE [st EXCEPT !.i = st.i + At(m, st.i + 3) * 2 + 3,
                              !.reads = st.reads \cup {st.i + 3}]
         ELSE [st EXCEPT !.i = st.i + 3]

\* SkipEntry that steps by the would-be control count whatever the flag.
SkipEntryPeek(m, pc, st) ==
    IF ~InRange(m, st.i + 1) THEN Raised(st)
    ELSE IF At(m, st.i + 1) >= 0 THEN [st EXCEPT !.i = st.i + 2]
    ELSE IF ~InRange(m, st.i + 3) THEN Raised(st)
    ELSE [st EXCEPT !.i = st.i + At(m, st.i + 3) * 2 + 1 + 3,
                    !.reads = st.reads \cup {st.i + 3}]

\* Lines 558-563: step the cursor over the entry it stands on.
SkipEntry(m, pc, st) ==
    IF ~InRange(m, st.i + 1) THEN Raised(st)
    ELSE IF At(m, st.i + 1) >= 0 THEN [st EXCEPT !.i = st.i + 2]
    ELSE IF pc
         THEN IF ~InRange(m, st.i + 3) THEN Raised(st)
              ELSE [st EXCEPT !.i = st.i + At(m, st.i + 3) * 2 + 1 + 3,
                              !.reads = st.reads \cup {st.i + 3}]
         ELSE [st EXCEPT !.i = st.i + 3]

\* Lines 574-578: the control pairs of the synth at i.
RECURSIVE ReadControls(_, _, _, _, _)
ReadControls(m, i, j, n, st) ==
    IF n <= 0 \/ st.err THEN st
    ELSE IF ~InRange(m, i + 4 + j) \/ ~InRange(m, i + 5 + j) THEN Raised(st)
    ELSE ReadControls(m, i, j + 2, n - 1,
             [st EXCEPT !.d = DictSet(st.d, At(m, i + 4 + j), At(m, i + 5 + j)),
                        !.reads = st.reads \cup {i + 4 + j, i + 5 + j}])

\* Lines 571-578: the synth entry at i, as <<key, controls>>.
SynthEntry(m, pc, i, reads) ==
    IF ~InRange(m, i + 2) THEN Raised(DState(i, <<>>, FALSE, reads))
    ELSE IF pc
         THEN IF ~InRange(m, i + 3) THEN Raised(DState(i, <<>>, FALSE, reads))
              ELSE ReadControls(m, i, 0, At(m, i + 3),
                       DState(i, <<>>, FALSE, reads \cup {i + 3}))
         ELSE DState(i, <<>>, FALSE, reads)

\* Lines 555-578: dump_func(outdct, num_children) from cursor st.i, n more
\* iterations of its loop to go.
RECURSIVE DumpFunc(_, _, _, _)
DumpFunc(m, pc, st, n) ==
    IF n <= 0 \/ st.err THEN st
    ELSE LET s1 == SkipEntry(m, pc, st)
             i == s1.i
         IN IF s1.err THEN s1
            ELSE IF ~InRange(m, i) \/ ~InRange(m, i + 1) THEN Raised(s1)
            ELSE IF At(m, i + 1) >= 0
                 THEN LET sub == IF At(m, i + 1) > 0
                                 THEN DumpFunc(m, pc, DState(i, <<>>, FALSE, s1.reads),
                                               At(m, i + 1))
                                 ELSE DState(i, <<>>, FALSE, s1.reads)
                      IN IF sub.err THEN Raised(s1)
                         ELSE DumpFunc(m, pc,
                                  DState(sub.i, DictSet(s1.d, GroupKey(At(m, i)), sub.d),
                                         FALSE, sub.reads),
                                  n - 1)
                 ELSE LET syn == SynthEntry(m, pc, i, s1.reads)
                      IN IF syn.err THEN Raised(s1)
                         ELSE DumpFunc(m, pc,
                                  DState(i, DictSet(s1.d, SynthKey(At(m, i), At(m, i + 2)),
                                                    syn.d),
                                         FALSE, syn.reads),
                                  n - 1)

\* Lines 548-583: resp_func up to "done = True".  The result holds outdct,
\* the final cursor, and err when an IndexError left resp_func early.
Decode(m) ==
    IF ~InRange(m, 1) \/ ~InRange(m, 2) \/ ~InRange(m, 3)
    THEN [err |-> TRUE, out |-> <<>>, i |-> 2, pc |-> FALSE, reads |-> {}]
    ELSE LET pc == At(m, 1) # 0
             st == IF At(m, 3) > 0
                   THEN DumpFunc(m, pc, DState(2, <<>>, FALSE, {}), At(m, 3))
                   ELSE DState(2, <<>>, FALSE, {})
         IN [err |-> st.err,
             out |-> IF st.err THEN <<>> ELSE << <<GroupKey(At(m, 2)), st.d>> >>,
             i |-> st.i, pc |-> pc, reads |-> st.reads]

\* The position after the entry the cursor was left on.
Consumed(m, r) == SkipEntry(m, r.pc, DState(r.i, <<>>, FALSE, {})).i

\* ------------------------------------------------------------------------
\* SpecTree: one well-formed reply, decoded.
\* ------------------------------------------------------------------------

QueriedId == 1

\* The node mirror plays no part in SpecTree and SpecQuery.
NoNodes ==
    /\ nodes = <<>>
    /\ watched = {}
    /\ reg = {}
    /\ last = <<>>
    /\ cap = 0
    /\ roots = <<>>
    /\ center = <<>>
    /\ cbs = <<>>
    /\ info = <<>>

ReplyTrees ==
    UNION {{GroupNode(QueriedId, f) : f \in ForestsOf(n, QueriedId, 1)}
           : n \in 0..MaxTreeNodes}

InitTree ==
    /\ src \in ReplyTrees
    /\ \E flag \in {0, 1} : msg = EncodeReply(src, flag)
    /\ res = <<>>
    /\ reqs = <<>>
    /\ wire = {}
    /\ out = <<>>
    /\ NoNodes

\* The listener fires: resp_func(msg).
RespFuncTree ==
    /\ res = <<>>
    /\ res' = <<Decode(msg)>>
    /\ UNCHANGED <<msg, src, reqs, wire, out>>
    /\ UNCHANGED varsNodes

NextTree == RespFuncTree

SpecTree == InitTree /\ [][NextTree]_vars
\* ------------------------------------------------------------------------
\* Effects: what a handler does to its collaborators (the address channel,
\* the responders, the clock, the logger, the caller's callback).
\* ------------------------------------------------------------------------

Message(cmd, name, args) == [cmd |-> cmd, name |-> name, args |-> args]

\* server.addr.send_msg(cmd, ...)
SendMsg(m) == [eff |-> "send_msg", time |-> "", msgs |-> <<m>>]
\* server.addr.send_bundle(time, msg, ...)
SendBundle(time, ms) == [eff |-> "send_bundle", time |-> time, msgs |-> ms]
\* Any other call: an OscFunc made one-shot or freed, a clock entry, a
\* logged warning, the callback.
Effect(e) == [eff |-> e, time |-> "", msgs |-> <<>>]

Sends(o) == {n \in 1..Len(o) : o[n].eff \in {"send_msg", "send_bundle"}}

\* ------------------------------------------------------------------------
\* SpecQuery: AbstractGroup.query_tree, its listener and its timeout.
\* ------------------------------------------------------------------------

\* The node ids of the groups queried.
QueriedGroups == {1, 2}

Reqs == 1..MaxReq

\* A call not made yet.  done is the closure variable of query_tree,
\* listening whether resp is subscribed, calls the root node ids of the
\* mappings handed to the callback (action or _pretty_tree), warned the timeout warnings logged,
\* raised the IndexErrors that left resp_func.  early and late count the
\* replies the receive path dispatched before and after the timeout,
\* answered whether the server's well-formed reply to this very call
\* arrived before the timeout.
NoReq ==
    [st |-> "idle", gid |-> 0, flag |-> 0, done |-> FALSE, listening |-> FALSE,
     timer |-> "none", calls |-> <<>>, warned |-> 0, raised |-> 0,
     early |-> 0, late |-> 0, answered |-> FALSE]

\* The well-formed replies the server may give for group g: the group
\* empty, holding an empty group, or holding a synth with one control.
ReplyForests(g) ==
    {<<>>, <<GroupNode(ChildId(g, 1), <<>>)>>, <<SynthNode(ChildId(g, 1), 1)>>}

WellFormedReplies(g, flag) ==
    {EncodeReply(GroupNode(g, f), flag) : f \in ReplyForests(g)}

\* The replies cut short after the header: a declared child count or
\* control count overruns the payload.
MalformedReplies(g, flag) ==
    UNION {{SubSeq(m, 1, k) : k \in 4..(Len(m) - 1)} : m \in WellFormedReplies(g, flag)}
    \cup {<<ReplyAddr, flag, g, 1>>}

RepliesTo(g, flag) == WellFormedReplies(g, flag) \cup MalformedReplies(g, flag)

WellFormed(m) == \E g \in QueriedGroups, flag \in {0, 1} : m \in WellFormedReplies(g, flag)

\* Lines 545-601: group.query_tree(controls, action, timeout) as call r.
QueryTree(r, g, flag) ==
    /\ reqs[r].st = "idle"
    /\ \A q \in 1..(r - 1) : reqs[q].st # "idle"
    /\ reqs' = [reqs EXCEPT ![r] = [NoReq EXCEPT !.st = "pending", !.gid = g,
                                                  !.flag = flag, !.listening = TRUE,
                                                  !.timer = "armed"]]
    /\ wire' = wire \cup {<<r, g, flag>>}
    /\ out' = <<Effect("one_shot"),
                SendMsg(Message("/g_queryTree", "", <<g, flag>>)),
                Effect("sched")>>

\* The node id the mapping handed to a callback is keyed by.
RootIdOf(o) == o[1][1][2]

\* Lines 547-588 behind OscFunc.one_shot: the listener of call q gets
\* reply m; it retires itself, then resp_func runs.
RespFunc(q, m) ==
    LET d == Decode(m)
    IN IF d.err
       THEN [q EXCEPT !.listening = FALSE, !.raised = q.raised + 1]
       ELSE [q EXCEPT !.listening = FALSE, !.done = TRUE,
                      !.calls = Append(q.calls, RootIdOf(d.out))]

\* The receive path hands reply m to every responder subscribed to
\* '/g_queryTree.reply' on the server's address.
Dispatch(m) ==
    [r \in Reqs |->
        LET q == reqs[r]
            seen == IF q.timer = "armed" THEN [q EXCEPT !.early = q.early + 1]
                    ELSE IF q.timer = "fired" THEN [q EXCEPT !.late = q.late + 1]
                    ELSE q
        IN IF q.listening THEN RespFunc(seen, m) ELSE seen]

\* The server answers one request, well or badly, and the reply arrives.
Reply(w, m) ==
    /\ w \in wire
    /\ m \in RepliesTo(w[2], w[3])
    /\ wire' = wire \ {w}
    /\ reqs' = [Dispatch(m) EXCEPT ![w[1]].answered =
                    @ \/ (m \in WellFormedReplies(w[2], w[3]) /\ reqs[w[1]].timer = "armed")]
    /\ out' = <<>>

\* timeout_func that warns but leaves resp subscribed.
TimeoutFuncNoFree(r) ==
    /\ reqs[r].timer = "armed"
    /\ IF ~reqs[r].done
       THEN /\ reqs' = [reqs EXCEPT ![r].timer = "fired",
                                    ![r].warned = reqs[r].warned + 1]
            /\ out' = <<Effect("warning")>>
       ELSE /\ reqs' = [reqs EXCEPT ![r].timer = "fired"]
            /\ out' = <<>>
    /\ UNCHANGED wire

\* Lines 593-598: timeout_func of call r, run by the clock.
TimeoutFunc(r) ==
    /\ reqs[r].timer = "armed"
    /\ IF ~reqs[r].done
       THEN /\ reqs' = [reqs EXCEPT ![r].timer = "fired", ![r].listening = FALSE,
                                    ![r].warned = reqs[r].warned + 1]
            /\ out' = <<Effect("free"), Effect("warning")>>
       ELSE /\ reqs' = [reqs EXCEPT ![r].timer = "fired"]
            /\ out' = <<>>
    /\ UNCHANGED wire

InitQuery ==
    /\ reqs = [r \in Reqs |-> NoReq]
    /\ wire = {}
    /\ out = <<>>
    /\ msg = <<>>
    /\ src = <<>>
    /\ res = <<>>
    /\ NoNodes

NextQuery ==
    \/ \E r \in Reqs, g \in QueriedGroups, flag \in {0, 1} :
           QueryTree(r, g, flag) /\ UNCHANGED varsTree /\ UNCHANGED varsNodes
    \/ \E w \in wire : \E m \in RepliesTo(w[2], w[3]) : Reply(w, m) /\ UNCHANGED varsTree /\ UNCHANGED varsNodes
    \/ \E r \in Reqs : TimeoutFunc(r) /\ UNCHANGED varsTree /\ UNCHANGED varsNodes

SpecQuery == InitQuery /\ [][NextQuery]_vars

\* ------------------------------------------------------------------------
\* The node mirror: Node, AbstractGroup, Group, ParGroup, RootNode, Synth.
\* ------------------------------------------------------------------------

\* "group = None", as an object reference that is no object.
NoneRef == -1

\* The tri-state flags _is_playing and _is_running: None, True or False.
Unknown == <<>>
Known(b) == <<b>>

\* Object 0 is RootNode(server), object 1 the server's default group
\* (Group.basic_new(server, 1)); the caller's nodes follow.
RootObj == 0
DefaultGroupObj == 1

Objs == DOMAIN nodes

NodeRec(kind, id, group, playing, running) ==
    [kind |-> kind, node_id |-> id, group |-> group,
     playing |-> playing, running |-> running]

\* Lines 669-681: RootNode.__new__, first lookup for the server.
RootNodeNew == NodeRec("RootNode", 0, RootObj, Known(TRUE), Known(TRUE))

\* Lines 97-121: Node.basic_new(server, node_id).
BasicNew(kind, id) == NodeRec(kind, id, NoneRef, Unknown, Unknown)

\* server._next_node_id(): the ids the allocator hands out are fresh.
FirstNodeId == 1000
NextNodeId == FirstNodeId + (Cardinality(Objs) - 2)

NewObj == Cardinality(Objs)

IsGroup(o) == nodes[o].kind \in {"Group", "ParGroup", "RootNode"}

\* Lines 44-61: Node.add_actions.  A token is a name or a number.
Token(name, num) == [name |-> name, num |-> num]

\* add_actions with the shortcut 'a' given the code of 'b'.
AddActionNamesTypo ==
    <<<<"addToHead", 0>>, <<"addToTail", 1>>, <<"addBefore", 2>>,
      <<"addAfter", 3>>, <<"addReplace", 4>>,
      <<"head", 0>>, <<"tail", 1>>, <<"before", 2>>, <<"after", 3>>,
      <<"replace", 4>>,
      <<"h", 0>>, <<"t", 1>>, <<"b", 2>>, <<"a", 2>>, <<"r", 4>> >>

AddActionNames ==
    <<<<"addToHead", 0>>, <<"addToTail", 1>>, <<"addBefore", 2>>,
      <<"addAfter", 3>>, <<"addReplace", 4>>,
      <<"head", 0>>, <<"tail", 1>>, <<"before", 2>>, <<"after", 3>>,
      <<"replace", 4>>,
      <<"h", 0>>, <<"t", 1>>, <<"b", 2>>, <<"a", 3>>, <<"r", 4>> >>

\* Lines 123-125: cls.add_actions[add_action].
ActionNumberFor(tok) ==
    IF tok.name = ""
    THEN tok.num
    ELSE LET n == CHOOSE k \in 1..Len(AddActionNames) : AddActionNames[k][1] = tok.name
         IN AddActionNames[n][2]

\* The tokens the caller passes to the constructors in Spec.
SpawnTokens ==
    {Token("addToHead", -1), Token("addToTail", -1), Token("addBefore", -1),
     Token("addAfter", -1), Token("addReplace", -1)}

\* Lines 627-635: creation_cmd().
CreationCmd(kind) == IF kind = "ParGroup" THEN "/p_new" ELSE "/g_new"

\* Lines 472-476, 726-730, 750-755: the group of a node spawned with
\* add-action code a on target t.
SpawnGroup(a, t) == IF a < 2 THEN t ELSE nodes[t].group

\* NodeWatcher.register(node, playing, running): the node is watched and
\* its flags are the expected ones (spec.md 4.4).
WatcherRegister(ns, o, playing, running) ==
    [ns EXCEPT ![o].playing = Known(playing), ![o].running = Known(running)]

Call(op, o, args) == [op |-> op, obj |-> o, args |-> args, exc |-> ""]

\* Line 63: Node._register_all.
RegisterAll == FALSE

\* Lines 466-480 and 719-737: Group(target, add_action, register),
\* ParGroup(...) and Synth(def_name, args, target, add_action, register).
\* Lines 68-72, _init_register, leave the flags None unless register.
New(kind, tok, t, register) ==
    LET o == NewObj
        id == NextNodeId
        a == ActionNumberFor(tok)
        made == nodes @@ (o :> NodeRec(kind, id, SpawnGroup(a, t), Unknown, Unknown))
        doreg == register \/ RegisterAll
        cmd == IF kind = "Synth" THEN "/s_new" ELSE CreationCmd(kind)
        name == IF kind = "Synth" THEN "def" ELSE ""
    IN /\ cap > 0
       /\ t \in Objs
       /\ cap' = cap - 1
       /\ nodes' = IF doreg THEN WatcherRegister(made, o, TRUE, TRUE) ELSE made
       /\ watched' = IF doreg THEN watched \cup {o} ELSE watched
       /\ reg' = IF doreg THEN reg \cup {o} ELSE reg
       /\ out' = <<SendMsg(Message(cmd, name, <<id, a, nodes[t].node_id>>))>>
       /\ last' = Call(kind, o, <<a, t>>)

\* Lines 482-500 and 796-810: the class methods after, before, head, tail
\* (and, of the groups, replace), each the constructor with one add-action.
Convenience(kind, how, t) ==
    /\ how \in {"After", "Before", "ToHead", "ToTail"}
               \cup (IF kind = "Synth" THEN {} ELSE {"Replace"})
    /\ New(kind, Token("add" \o how, -1), t, FALSE)

\* Lines 746-769: Synth.new_paused(def_name, args, target, add_action).
NewPaused(tok, t) ==
    LET o == NewObj
        id == NextNodeId
        a == ActionNumberFor(tok)
        synth == BasicNew("Synth", id)
    IN /\ cap > 0
       /\ t \in Objs
       /\ cap' = cap - 1
       /\ nodes' = nodes @@ (o :> [synth EXCEPT !.group = SpawnGroup(a, t)])
       /\ out' = <<SendBundle("None",
                      <<Message("/s_new", "def", <<id, a, nodes[t].node_id>>),
                        Message("/n_run", "", <<id, 0>>)>>)>>
       /\ last' = Call("new_paused", o, <<a, t>>)
       /\ UNCHANGED <<watched, reg>>

\* Lines 771-784 and 812-813: Synth.new_replace(node_to_replace, def_name,
\* args, same_id) and node_to_replace.replace(def_name, args, same_id).
\* The synth comes from basic_new, which sets group = None (line 117), and
\* nothing assigns group after it; the message carries the literal 4.
NewReplace(t, same_id) ==
    LET o == NewObj
        id == IF same_id THEN nodes[t].node_id ELSE NextNodeId
        synth == BasicNew("Synth", id)
    IN /\ cap > 0
       /\ t \in Objs
       /\ cap' = cap - 1
       /\ nodes' = nodes @@ (o :> synth)
       /\ out' = <<SendMsg(Message("/s_new", "def", <<id, 4, nodes[t].node_id>>))>>
       /\ last' = Call("new_replace", o, <<4, t, IF same_id THEN 1 ELSE 0>>)
       /\ UNCHANGED <<watched, reg>>

\* free(send_flag) that does what its docstring says and marks the node
\* as neither playing nor running.
FreeClearsFlags(o, send) ==
    /\ o \in Objs
    /\ nodes[o].kind # "RootNode"
    /\ nodes' = [nodes EXCEPT ![o].group = NoneRef,
                              ![o].playing = Known(FALSE),
                              ![o].running = Known(FALSE)]
    /\ out' = IF send THEN <<SendMsg(Message("/n_free", "", <<nodes[o].node_id>>))>>
              ELSE <<>>
    /\ last' = Call("free", o, <<IF send THEN 1 ELSE 0>>)
    /\ UNCHANGED <<watched, reg, cap>>

\* free that detaches the node only when it sends.
FreeOnlyWhenSent(o, send) ==
    /\ o \in Objs
    /\ nodes[o].kind # "RootNode"
    /\ nodes' = IF send THEN [nodes EXCEPT ![o].group = NoneRef] ELSE nodes
    /\ out' = IF send THEN <<SendMsg(Message("/n_free", "", <<nodes[o].node_id>>))>>
              ELSE <<>>
    /\ last' = Call("free", o, <<IF send THEN 1 ELSE 0>>)
    /\ UNCHANGED <<watched, reg, cap>>

\* Lines 127-144: node.free(send_flag), node not the RootNode.
Free(o, send) ==
    /\ o \in Objs
    /\ nodes[o].kind # "RootNode"
    /\ nodes' = [nodes EXCEPT ![o].group = NoneRef]
    /\ out' = IF send THEN <<SendMsg(Message("/n_free", "", <<nodes[o].node_id>>))>>
              ELSE <<>>
    /\ last' = Call("free", o, <<IF send THEN 1 ELSE 0>>)
    /\ UNCHANGED <<watched, reg, cap>>

Kinds == {"Group", "ParGroup", "Synth"}

\* After the server has booted: the root node and the default group.
InitNodes ==
    /\ nodes = (RootObj :> RootNodeNew) @@ (DefaultGroupObj :> BasicNew("Group", 1))
    /\ watched = {}
    /\ reg = {}
    /\ out = <<>>
    /\ last = Call("boot", RootObj, <<>>)

\* The name of the default server, whose root node exists from the boot on.
DefaultServerName == 1

Idle ==
    /\ msg = <<>> /\ src = <<>> /\ res = <<>> /\ reqs = <<>> /\ wire = {}
    /\ roots = (DefaultServerName :> RootObj)
    /\ center = <<>>
    /\ cbs = <<>>
    /\ info = <<>>

Init == InitNodes /\ Idle /\ cap = MaxNodes

Next ==
    \/ \E k \in Kinds, tok \in SpawnTokens, t \in Objs, r \in BOOLEAN :
           New(k, tok, t, r) /\ UNCHANGED varsIdle
    \/ \E k \in Kinds, how \in {"After", "Before", "ToHead", "ToTail", "Replace"},
          t \in Objs :
           Convenience(k, how, t) /\ UNCHANGED varsIdle
    \/ \E tok \in SpawnTokens, t \in Objs : NewPaused(tok, t) /\ UNCHANGED varsIdle
    \/ \E t \in Objs, same \in BOOLEAN : NewReplace(t, same) /\ UNCHANGED varsIdle
    \/ \E o \in Objs, send \in BOOLEAN : Free(o, send) /\ UNCHANGED varsIdle

Spec == Init /\ [][Next]_vars

\* ------------------------------------------------------------------------
\* SpecCtl: run, release and the RootNode overrides.
\* ------------------------------------------------------------------------

\* Lines 146-157: node.run(flag), node not the RootNode.
Run(o, flag) ==
    /\ o \in Objs
    /\ nodes[o].kind # "RootNode"
    /\ out' = <<SendMsg(Message("/n_run", "", <<nodes[o].node_id, IF flag THEN 1 ELSE 0>>))>>
    /\ last' = Call("run", o, <<IF flag THEN 1 ELSE 0>>)
    /\ UNCHANGED <<nodes, watched, reg, cap>>

\* A release time: <<>> is None, <<k>> is k/TimeScale seconds.  A gate
\* value g stands for g/TimeScale.
Times == {<<>>} \cup {<<k>> : k \in (0 - MaxTime)..MaxTime}

\* release with the "+ 1" left out of the forced release.
ReleaseGateNoOffset(time) ==
    IF time # <<>>
    THEN IF time[1] <= 0 THEN 0 - TimeScale ELSE 0 - time[1]
    ELSE 0

\* Lines 376-382: the gate value of release(time).
ReleaseGate(time) ==
    IF time # <<>>
    THEN IF time[1] <= 0 THEN 0 - TimeScale ELSE 0 - (time[1] + TimeScale)
    ELSE 0

\* Lines 345-387: node.release(time).
Release(o, time) ==
    /\ o \in Objs
    /\ out' = <<SendBundle("latency",
                   <<Message("/n_set", "gate", <<nodes[o].node_id, ReleaseGate(time)>>)>>)>>
    /\ last' = Call("release", o, time)
    /\ UNCHANGED <<nodes, watched, reg, cap>>

\* The methods RootNode overrides, and the numbers of arguments each
\* takes on an ordinary node (lines 127, 146, 432, 437, 442, 446).
RootOps == {"run", "free", "move_before", "move_after", "move_to_head", "move_to_tail"}

OrdinaryArgs(op) == IF op \in {"move_before", "move_after"} THEN {1} ELSE {0, 1}

\* Lines 686-702: every override is "def op(self)": it takes no argument.
RootArity(op) == 0

\* root.op(args): Python raises TypeError before the body runs when more
\* arguments are passed than the method takes; the body logs a warning.
RootCall(op, nargs) ==
    /\ op \in RootOps
    /\ nargs \in OrdinaryArgs(op)
    /\ IF nargs > RootArity(op)
       THEN /\ out' = <<>>
            /\ last' = [Call(op, RootObj, <<nargs>>) EXCEPT !.exc = "TypeError"]
       ELSE /\ out' = <<Effect("warning")>>
            /\ last' = Call(op, RootObj, <<nargs>>)
    /\ UNCHANGED <<nodes, watched, reg, cap>>

InitCtl == InitNodes /\ Idle /\ cap = MaxCtlNodes

NextCtl ==
    \/ \E k \in Kinds, tok \in SpawnTokens, t \in Objs :
           New(k, tok, t, FALSE) /\ UNCHANGED varsIdle
    \/ \E o \in Objs, send \in BOOLEAN : Free(o, send) /\ UNCHANGED varsIdle
    \/ \E o \in Objs, flag \in BOOLEAN : Run(o, flag) /\ UNCHANGED varsIdle
    \/ \E o \in Objs, time \in Times : Release(o, time) /\ UNCHANGED varsIdle
    \/ \E op \in RootOps, nargs \in {0, 1} : RootCall(op, nargs) /\ UNCHANGED varsIdle

SpecCtl == InitCtl /\ [][NextCtl]_vars

\* ------------------------------------------------------------------------
\* SpecWatch: register, unregister and the server's notifications.
\* ------------------------------------------------------------------------

\* Lines 413-414: node.register(playing, running).
Register(o, playing, running) ==
    /\ o \in Objs
    /\ nodes' = WatcherRegister(nodes, o, playing, running)
    /\ watched' = watched \cup {o}
    /\ reg' = reg \cup {o}
    /\ out' = <<>>
    /\ last' = Call("register", o, <<>>)
    /\ UNCHANGED cap

\* unregister that never reaches the NodeWatcher.
UnregisterNoop(o) ==
    /\ o \in Objs
    /\ reg' = reg \ {o}
    /\ out' = <<>>
    /\ last' = Call("unregister", o, <<>>)
    /\ UNCHANGED <<nodes, watched, cap>>

\* Lines 416-417: node.unregister(); NodeWatcher.unregister(node) removes
\* both subscriptions and leaves the flags (spec.md 4.4).
Unregister(o) ==
    /\ o \in Objs
    /\ watched' = watched \ {o}
    /\ reg' = reg \ {o}
    /\ out' = <<>>
    /\ last' = Call("unregister", o, <<>>)
    /\ UNCHANGED <<nodes, cap>>

\* The server reports that node o ended.  spec.md 4.4: the event "clears
\* watched flags, marks not-playing"; the three ways to read it are kept:
\* "mark" sets is_playing false, "clear" sets both flags false, "drop"
\* sets both false and ends the subscriptions of the node.
EndedModes == {"mark", "clear", "drop"}

Ended(o, mode) ==
    /\ o \in Objs
    /\ mode \in EndedModes
    /\ nodes' = IF o \notin watched THEN nodes
                ELSE IF mode = "mark" THEN [nodes EXCEPT ![o].playing = Known(FALSE)]
                ELSE [nodes EXCEPT ![o].playing = Known(FALSE),
                                   ![o].running = Known(FALSE)]
    /\ watched' = IF mode = "drop" THEN watched \ {o} ELSE watched
    /\ out' = <<>>
    /\ last' = Call("n_end", o, <<>>)
    /\ UNCHANGED <<reg, cap>>

\* The server reports that node o was paused (n_off) or resumed (n_on):
\* is_running of a watched node follows (spec.md 4.4).
RunStateChanged(o, running) ==
    /\ o \in Objs
    /\ nodes' = IF o \in watched THEN [nodes EXCEPT ![o].running = Known(running)]
                ELSE nodes
    /\ out' = <<>>
    /\ last' = Call(IF running THEN "n_on" ELSE "n_off", o, <<>>)
    /\ UNCHANGED <<watched, reg, cap>>

InitWatch == InitNodes /\ Idle /\ cap = MaxWatchNodes

\* The nodes the caller registers: its own and the root node.
Watchable == Objs \ {DefaultGroupObj}

NextWatch ==
    \/ \E k \in Kinds, r \in BOOLEAN :
           New(k, Token("addToHead", -1), DefaultGroupObj, r) /\ UNCHANGED varsIdle
    \/ \E o \in Watchable, p \in BOOLEAN, r \in BOOLEAN :
           Register(o, p, r) /\ UNCHANGED varsIdle
    \/ \E o \in Watchable : Unregister(o) /\ UNCHANGED varsIdle
    \/ \E o \in Watchable, mode \in EndedModes : Ended(o, mode) /\ UNCHANGED varsIdle
    \/ \E o \in Watchable, r \in BOOLEAN : RunStateChanged(o, r) /\ UNCHANGED varsIdle

SpecWatch == InitWatch /\ [][NextWatch]_vars

\* ------------------------------------------------------------------------
\* SpecMove: the placement operations, with free, run and release.
\* ------------------------------------------------------------------------

MaxMoveNodes == 1

\* Lines 504-510: group.move_node_to_head(node), move_node_to_tail(node);
\* cmd is '/g_head' or '/g_tail'.
PlaceInGroup(cmd, g, n) ==
    /\ nodes' = [nodes EXCEPT ![n].group = g]
    /\ out' = <<SendMsg(Message(cmd, "", <<nodes[g].node_id, nodes[n].node_id>>))>>

MoveNodeToHead(g, n) ==
    /\ g \in Objs /\ n \in Objs
    /\ IsGroup(g)
    /\ PlaceInGroup("/g_head", g, n)
    /\ last' = Call("move_node_to_head", g, <<n>>)
    /\ UNCHANGED <<watched, reg, cap>>

MoveNodeToTail(g, n) ==
    /\ g \in Objs /\ n \in Objs
    /\ IsGroup(g)
    /\ PlaceInGroup("/g_tail", g, n)
    /\ last' = Call("move_node_to_tail", g, <<n>>)
    /\ UNCHANGED <<watched, reg, cap>>

\* move_before and move_after that put the node inside the other node.
PlaceBesideInside(cmd, o, n) ==
    /\ nodes' = [nodes EXCEPT ![o].group = n]
    /\ out' = <<SendMsg(Message(cmd, "", <<nodes[o].node_id, nodes[n].node_id>>))>>

\* Lines 432-440: node.move_before(other), node.move_after(other), node
\* not the RootNode; cmd is '/n_before' or '/n_after'.
PlaceBeside(cmd, o, n) ==
    /\ nodes' = [nodes EXCEPT ![o].group = nodes[n].group]
    /\ out' = <<SendMsg(Message(cmd, "", <<nodes[o].node_id, nodes[n].node_id>>))>>

MoveBefore(o, n) ==
    /\ o \in Objs /\ n \in Objs
    /\ nodes[o].kind # "RootNode"
    /\ PlaceBeside("/n_before", o, n)
    /\ last' = Call("move_before", o, <<n>>)
    /\ UNCHANGED <<watched, reg, cap>>

MoveAfter(o, n) ==
    /\ o \in Objs /\ n \in Objs
    /\ nodes[o].kind # "RootNode"
    /\ PlaceBeside("/n_after", o, n)
    /\ last' = Call("move_after", o, <<n>>)
    /\ UNCHANGED <<watched, reg, cap>>

\* Lines 442-448: node.move_to_head(group), node.move_to_tail(group), node
\* not the RootNode; group None stands for server.default_group.
GroupOrDefault(g) == IF g = NoneRef THEN DefaultGroupObj ELSE g

MoveToHead(o, g) ==
    /\ o \in Objs
    /\ nodes[o].kind # "RootNode"
    /\ g = NoneRef \/ (g \in Objs /\ IsGroup(g))
    /\ PlaceInGroup("/g_head", GroupOrDefault(g), o)
    /\ last' = Call("move_to_head", o, <<g>>)
    /\ UNCHANGED <<watched, reg, cap>>

MoveToTail(o, g) ==
    /\ o \in Objs
    /\ nodes[o].kind # "RootNode"
    /\ g = NoneRef \/ (g \in Objs /\ IsGroup(g))
    /\ PlaceInGroup("/g_tail", GroupOrDefault(g), o)
    /\ last' = Call("move_to_tail", o, <<g>>)
    /\ UNCHANGED <<watched, reg, cap>>

InitMove == InitNodes /\ Idle /\ cap = MaxMoveNodes

\* The release times of SpecMove: None and 0.
MoveTimes == {<<>>, <<0>>}

\* The nodes the caller frees, runs, releases and moves: its own nodes and
\* the root node; the default group is a target only.
Movable == Objs \ {DefaultGroupObj}

NextMove ==
    \/ \E k \in {"Group", "Synth"}, tok \in SpawnTokens, t \in Objs, r \in BOOLEAN :
           New(k, tok, t, r) /\ UNCHANGED varsIdle
    \/ \E o \in Movable, send \in BOOLEAN : Free(o, send) /\ UNCHANGED varsIdle
    \/ \E o \in Movable, flag \in BOOLEAN : Run(o, flag) /\ UNCHANGED varsIdle
    \/ \E o \in Movable, time \in MoveTimes : Release(o, time) /\ UNCHANGED varsIdle
    \/ \E op \in RootOps, nargs \in {0, 1} : RootCall(op, nargs) /\ UNCHANGED varsIdle
    \/ \E o \in Movable, n \in Objs : MoveBefore(o, n) /\ UNCHANGED varsIdle
    \/ \E o \in Movable, n \in Objs : MoveAfter(o, n) /\ UNCHANGED varsIdle
    \/ \E o \in Movable, g \in Objs \cup {NoneRef} : MoveToHead(o, g) /\ UNCHANGED varsIdle
    \/ \E o \in Movable, g \in Objs \cup {NoneRef} : MoveToTail(o, g) /\ UNCHANGED varsIdle
    \/ \E g \in Objs, n \in Movable : MoveNodeToHead(g, n) /\ UNCHANGED varsIdle
    \/ \E g \in Objs, n \in Movable : MoveNodeToTail(g, n) /\ UNCHANGED varsIdle

SpecMove == InitMove /\ [][NextMove]_vars

\* ------------------------------------------------------------------------
\* SpecSet: Synth.seti.
\* ------------------------------------------------------------------------

MaxSeti == 2
MaxSetNodes == 1

\* SynthDescLib.at(def_name).control_dict of the one def of the model:
\* key 1 is a control of one channel, key 2 a control of two channels.
ControlDict ==
    (1 :> [index |-> 0, channels |-> 1]) @@ (2 :> [index |-> 1, channels |-> 2])

\* The arguments of seti: triples key, offset, value; key 3 is no control
\* of the def, a value is a number or a list of two numbers.
SetiTriple(key, offset, list) ==
    [key |-> key, offset |-> offset,
     value |-> [list |-> list, v |-> IF list THEN <<7, 8>> ELSE <<7>>]]

SetiTriples ==
    {SetiTriple(1, 0, FALSE), SetiTriple(1, 1, FALSE), SetiTriple(2, 0, TRUE),
     SetiTriple(2, 1, TRUE), SetiTriple(2, 1, FALSE), SetiTriple(3, 0, FALSE)}

SetiArgs == UNION {[1..n -> SetiTriples] : n \in 0..MaxSeti}

\* value[:n]
Take(s, n) == SubSeq(s, 1, IF n < Len(s) THEN n ELSE Len(s))

\* Lines 857-865: osc_msg, flattened as _as_osc_arg_list flattens it.
RECURSIVE SetiMsg(_, _)
SetiMsg(args, k) ==
    IF k > Len(args) THEN <<>>
    ELSE LET a == args[k]
             rest == SetiMsg(args, k + 1)
         IN IF a.key \in DOMAIN ControlDict /\ a.offset < ControlDict[a.key].channels
            THEN <<ControlDict[a.key].index + a.offset>>
                 \o (IF a.value.list
                     THEN Take(a.value.v, ControlDict[a.key].channels - a.offset)
                     ELSE a.value.v)
                 \o rest
            ELSE rest

\* seti without the return after the warning.
SetiNoReturn(o, found, args) ==
    /\ o \in Objs
    /\ nodes[o].kind = "Synth"
    /\ out' = (IF found THEN <<>> ELSE <<Effect("warning")>>)
              \o <<SendMsg(Message("/n_set", "",
                     <<nodes[o].node_id>> \o (IF found THEN SetiMsg(args, 1) ELSE <<>>)))>>
    /\ last' = Call("seti", o, <<IF found THEN 1 ELSE 0, Len(args)>>)
    /\ UNCHANGED <<nodes, watched, reg, cap>>

\* Lines 841-868: synth.seti(*args); found says whether SynthDescLib has
\* the def of the synth.
Seti(o, found, args) ==
    /\ o \in Objs
    /\ nodes[o].kind = "Synth"
    /\ out' = IF found
              THEN <<SendMsg(Message("/n_set", "",
                       <<nodes[o].node_id>> \o SetiMsg(args, 1)))>>
              ELSE <<Effect("warning")>>
    /\ last' = Call("seti", o, <<IF found THEN 1 ELSE 0, Len(args)>>)
    /\ UNCHANGED <<nodes, watched, reg, cap>>

InitSet == InitNodes /\ Idle /\ cap = MaxSetNodes

NextSet ==
    \/ \E tok \in SpawnTokens, t \in Objs, r \in BOOLEAN :
           New("Synth", tok, t, r) /\ UNCHANGED varsIdle
    \/ \E o \in Objs, found \in BOOLEAN, args \in SetiArgs :
           Seti(o, found, args) /\ UNCHANGED varsIdle

SpecSet == InitSet /\ [][NextSet]_vars

\* ------------------------------------------------------------------------
\* SpecRoots: RootNode(server) and the class-level cache RootNode.roots.
\* ------------------------------------------------------------------------

MaxServers == 4
MaxRootsNodes == 1

\* Server objects 1..MaxServers; 0 stands for server=None.  Servers 1 and 2
\* carry the name of the default server, 3 and 4 the next name, and so on.
ServerName(srv) == (srv + 1) \div 2

\* Line 670: server = server or srv.Server.default.
ServerOrDefault(srv) == IF srv = 0 THEN 1 ELSE srv

\* RootNode(server) that builds a root node on every call.
RootNodeNoCache(srv) ==
    LET name == ServerName(ServerOrDefault(srv))
        o == NewObj
    IN /\ srv \in 0..MaxServers
       /\ Cardinality(Objs) < 2 + MaxRootsNodes + MaxServers
       /\ nodes' = nodes @@ (o :> [RootNodeNew EXCEPT !.group = o])
       /\ roots' = IF name \in DOMAIN roots THEN [roots EXCEPT ![name] = o]
                   ELSE roots @@ (name :> o)
       /\ last' = Call("RootNode", o, <<srv, name>>)
       /\ out' = <<>>
       /\ UNCHANGED <<watched, reg, cap>>

\* Lines 669-684: RootNode(server): __new__ returns the cached root of
\* the server's name or makes and caches one; __init__ changes no field.
RootNode(srv) ==
    LET name == ServerName(ServerOrDefault(srv))
        o == NewObj
    IN /\ srv \in 0..MaxServers
       /\ IF name \in DOMAIN roots
          THEN /\ last' = Call("RootNode", roots[name], <<srv, name>>)
               /\ UNCHANGED <<nodes, roots>>
          ELSE /\ nodes' = nodes @@ (o :> [RootNodeNew EXCEPT !.group = o])
               /\ roots' = roots @@ (name :> o)
               /\ last' = Call("RootNode", o, <<srv, name>>)
       /\ out' = <<>>
       /\ UNCHANGED <<watched, reg, cap>>

InitRoots == InitNodes /\ Idle /\ cap = MaxRootsNodes

\* The root node objects.
RootObjs == {o \in Objs : nodes[o].kind = "RootNode"}

\* Lookups, interleaved with nodes spawned in a root node and freed, and
\* with root nodes moved into the default group.
NextRoots ==
    \/ \E srv \in 0..MaxServers :
           RootNode(srv) /\ UNCHANGED <<msg, src, res, reqs, wire, info>> /\ UNCHANGED varsCenter
    \/ \E k \in {"Group", "Synth"}, t \in RootObjs :
           New(k, Token("addToHead", -1), t, FALSE) /\ UNCHANGED varsIdle
    \/ \E o \in Objs \ RootObjs, send \in BOOLEAN : Free(o, send) /\ UNCHANGED varsIdle
    \/ \E n \in RootObjs : MoveNodeToHead(DefaultGroupObj, n) /\ UNCHANGED varsIdle

SpecRoots == InitRoots /\ [][NextRoots]_vars

\* ------------------------------------------------------------------------
\* SpecTok: the constructors called with every add-action token.
\* ------------------------------------------------------------------------

MaxTokNodes == 1

\* The keys of add_actions: the fifteen names and the numbers 0 to 4.
AllTokens ==
    {Token(AddActionNames[k][1], -1) : k \in 1..Len(AddActionNames)}
        \cup {Token("", n) : n \in 0..4}

\* Lines 786-794: Synth.grain(def_name, args, target, add_action): the
\* message alone, with node id -1; no object is made.
Grain(tok, t) ==
    /\ t \in Objs
    /\ out' = <<SendMsg(Message("/s_new", "def",
                  <<-1, ActionNumberFor(tok), nodes[t].node_id>>))>>
    /\ last' = Call("grain", t, <<ActionNumberFor(tok), t>>)
    /\ UNCHANGED <<nodes, watched, reg, cap>>

InitTok == InitNodes /\ Idle /\ cap = MaxTokNodes

\* res keeps the token the caller passed.
NextTok ==
    \/ \E k \in Kinds, tok \in AllTokens, t \in Objs :
           /\ New(k, tok, t, FALSE)
           /\ res' = <<tok>>
           /\ UNCHANGED <<msg, src, reqs, wire, roots, center, cbs, info>>
    \/ \E tok \in AllTokens, t \in Objs :
           /\ NewPaused(tok, t)
           /\ res' = <<tok>>
           /\ UNCHANGED <<msg, src, reqs, wire, roots, center, cbs, info>>
    \/ \E tok \in AllTokens, t \in Objs :
           /\ Grain(tok, t)
           /\ res' = <<tok>>
           /\ UNCHANGED <<msg, src, reqs, wire, roots, center, cbs, info>>

SpecTok == InitTok /\ [][NextTok]_vars

\* ------------------------------------------------------------------------
\* SpecFree: on_free, wait_for_free and the '/n_end' notification.
\* ------------------------------------------------------------------------

MaxCallbacks == 2
MaxFreeNodes == 1

\* NotificationCenter.register(obj, msg, listener, action), a notify-by-key
\* service (spec.md 1): the registration under a key is the last one
\* made.  on_free (line 425) always uses the key (self, '/n_end', self),
\* so the key is the node.
CenterRegister(c, o, cb) ==
    IF o \in DOMAIN c THEN [c EXCEPT ![o] = cb] ELSE c @@ (o :> cb)

\* NotificationCenter.unregister(obj, msg, listener), line 422.
CenterUnregister(c, o) == [k \in DOMAIN c \ {o} |-> c[k]]

\* A callback passed to on_free: the node, whether it is the unhang of a
\* coroutine in wait_for_free, and how often it was invoked.
Callback(o, wait) == [node |-> o, wait |-> wait, fired |-> 0]

\* Lines 419-425, the body of on_free: self.register(), then the
\* registration of action_wrapper.
InstallOnFree(o, wait, op) ==
    /\ o \in Objs
    /\ Len(cbs) < MaxCallbacks
    /\ nodes' = WatcherRegister(nodes, o, TRUE, TRUE)
    /\ watched' = watched \cup {o}
    /\ reg' = reg \cup {o}
    /\ cbs' = Append(cbs, Callback(o, wait))
    /\ center' = CenterRegister(center, o, Len(cbs) + 1)
    /\ out' = <<>>
    /\ last' = Call(op, o, <<>>)
    /\ UNCHANGED <<cap, roots>>

\* Lines 419-425: node.on_free(action).
OnFree(o) == InstallOnFree(o, FALSE, "on_free")

\* Lines 427-430: a coroutine runs node.wait_for_free() and hangs on the
\* condition; the callback installed is the unhang of that condition.
WaitForFree(o) == InstallOnFree(o, TRUE, "wait_for_free")

\* Lines 420-422, action_wrapper: the action is called, then the key of
\* the node is unregistered.
ActionWrapper(o) ==
    /\ cbs' = [cbs EXCEPT ![center[o]].fired = @ + 1]
    /\ center' = CenterUnregister(center, o)

\* The server reports that node o ended: the NodeWatcher handles it as in
\* Ended and, for a node it watches, notifies the '/n_end' registration
\* of the node (spec.md 4.4).
NEnd(o, mode) ==
    /\ Ended(o, mode)
    /\ IF o \in watched /\ o \in DOMAIN center
       THEN ActionWrapper(o)
       ELSE UNCHANGED <<center, cbs>>
    /\ UNCHANGED roots

InitFree == InitNodes /\ Idle /\ cap = MaxFreeNodes

NextFree ==
    \/ \E k \in {"Group", "Synth"} :
           New(k, Token("addToHead", -1), DefaultGroupObj, FALSE) /\ UNCHANGED varsIdle
    \/ \E o \in Watchable : OnFree(o) /\ UNCHANGED <<msg, src, res, reqs, wire, info>>
    \/ \E o \in Watchable : WaitForFree(o) /\ UNCHANGED <<msg, src, res, reqs, wire, info>>
    \/ \E o \in Watchable : Unregister(o) /\ UNCHANGED varsIdle
    \/ \E o \in Watchable, mode \in EndedModes :
           NEnd(o, mode) /\ UNCHANGED <<msg, src, res, reqs, wire, info>>

SpecFree == InitFree /\ [][NextFree]_vars

\* ------------------------------------------------------------------------
\* SpecInfo: Node.query, Synth.get and Synth.getn, beside one query_tree.
\* ------------------------------------------------------------------------

MaxInfo == 2
MaxInfoNodes == 1
MaxIndex == 1

\* The address of the reply to each request (lines 409, 823, 836).
ReplyPath(cmd) ==
    IF cmd = "/n_query" THEN "/n_info"
    ELSE IF cmd = "/s_get" THEN "/n_set" ELSE "/n_setn"

\* One call: the request sent, the arg_template of its listener (the
\* node id, and the index for get and getn), whether the listener is
\* subscribed, whether the request is not answered yet, and how often
\* the action was called.
InfoCall(cmd, template) ==
    [cmd |-> cmd, template |-> template, listening |-> TRUE, sent |-> TRUE,
     calls |-> 0]

\* get that sends '/s_get' first and subscribes the listener afterwards.
GetSendFirst(o, index) ==
    /\ o \in Objs
    /\ nodes[o].kind = "Synth"
    /\ Len(info) < MaxInfo
    /\ info' = Append(info, InfoCall("/s_get", <<nodes[o].node_id, index>>))
    /\ out' = <<SendMsg(Message("/s_get", "", <<nodes[o].node_id, index>>)),
                Effect("one_shot")>>
    /\ last' = Call("get", o, <<index>>)
    /\ UNCHANGED <<nodes, watched, reg, cap, roots, center, cbs>>

\* Lines 392-411: node.query(action).
Query(o) ==
    /\ o \in Objs
    /\ Len(info) < MaxInfo
    /\ info' = Append(info, InfoCall("/n_query", <<nodes[o].node_id>>))
    /\ out' = <<Effect("one_shot"),
                SendMsg(Message("/n_query", "", <<nodes[o].node_id>>))>>
    /\ last' = Call("query", o, <<>>)
    /\ UNCHANGED <<nodes, watched, reg, cap, roots, center, cbs>>

\* Lines 815-826: synth.get(index, action).
Get(o, index) ==
    /\ o \in Objs
    /\ nodes[o].kind = "Synth"
    /\ Len(info) < MaxInfo
    /\ info' = Append(info, InfoCall("/s_get", <<nodes[o].node_id, index>>))
    /\ out' = <<Effect("one_shot"),
                SendMsg(Message("/s_get", "", <<nodes[o].node_id, index>>))>>
    /\ last' = Call("get", o, <<index>>)
    /\ UNCHANGED <<nodes, watched, reg, cap, roots, center, cbs>>

\* Lines 828-839: synth.getn(index, count, action).
Getn(o, index, count) ==
    /\ o \in Objs
    /\ nodes[o].kind = "Synth"
    /\ Len(info) < MaxInfo
    /\ info' = Append(info, InfoCall("/s_getn", <<nodes[o].node_id, index>>))
    /\ out' = <<Effect("one_shot"),
                SendMsg(Message("/s_getn", "", <<nodes[o].node_id, index, count>>))>>
    /\ last' = Call("getn", o, <<index, count>>)
    /\ UNCHANGED <<nodes, watched, reg, cap, roots, center, cbs>>

\* The reply to call i matches the listener of call j: same address, and
\* the arg_template of j is what the reply begins with.
Matches(j, i) ==
    /\ ReplyPath(info[j].cmd) = ReplyPath(info[i].cmd)
    /\ info[j].template = info[i].template

\* The server answers the request of call i: every subscribed one-shot
\* listener the reply matches retires and calls its action.
InfoReply(i) ==
    /\ i \in 1..Len(info)
    /\ info[i].sent
    /\ info' = [j \in 1..Len(info) |->
                  LET c == IF j = i THEN [info[j] EXCEPT !.sent = FALSE] ELSE info[j]
                  IN IF c.listening /\ Matches(j, i)
                     THEN [c EXCEPT !.listening = FALSE, !.calls = @ + 1]
                     ELSE c]
    /\ out' = <<>>
    /\ last' = Call("reply", RootObj, <<i>>)
    /\ UNCHANGED <<nodes, watched, reg, cap, roots, center, cbs>>

InitInfo ==
    /\ InitNodes
    /\ cap = MaxInfoNodes
    /\ msg = <<>> /\ src = <<>> /\ res = <<>>
    /\ reqs = [r \in Reqs |-> NoReq]
    /\ wire = {}
    /\ roots = (DefaultServerName :> RootObj)
    /\ center = <<>>
    /\ cbs = <<>>
    /\ info = <<>>

\* The nodes queried: the caller's own.
Asked == Objs \ {RootObj, DefaultGroupObj}

NextInfo ==
    \/ New("Synth", Token("addToHead", -1), DefaultGroupObj, FALSE) /\ UNCHANGED varsIdle
    \/ \E o \in Asked : Query(o) /\ UNCHANGED <<msg, src, res, reqs, wire>>
    \/ \E o \in Asked, index \in 0..MaxIndex :
           Get(o, index) /\ UNCHANGED <<msg, src, res, reqs, wire>>
    \/ \E o \in Asked, index \in 0..MaxIndex :
           Getn(o, index, 1) /\ UNCHANGED <<msg, src, res, reqs, wire>>
    \/ \E i \in 1..Len(info) : InfoReply(i) /\ UNCHANGED <<msg, src, res, reqs, wire>>
    \/ QueryTree(1, 1, 0) /\ UNCHANGED varsTree /\ UNCHANGED varsNodes
    \/ \E w \in wire : \E m \in WellFormedReplies(w[2], w[3]) :
           Reply(w, m) /\ UNCHANGED varsTree /\ UNCHANGED varsNodes
    \/ TimeoutFunc(1) /\ UNCHANGED varsTree /\ UNCHANGED varsNodes

SpecInfo == InitInfo /\ [][NextInfo]_vars

\* ------------------------------------------------------------------------
\* The decoder against the grammar of spec.md 4.3.
\* ------------------------------------------------------------------------

\* The reference decode: the mapping the grammar gives a forest, read off
\* the tree itself and not off the flat payload.
RECURSIVE RefDict(_, _)
RefDict(f, flag) ==
    IF f = <<>> THEN <<>>
    ELSE << IF f[1].kind = "g"
            THEN <<GroupKey(f[1].id), RefDict(f[1].ch, flag)>>
            ELSE <<SynthKey(f[1].id, f[1].def), IF flag = 1 THEN f[1].ctl ELSE <<>>>> >>
         \o RefDict(Tail(f), flag)

RefReply(t, flag) == << <<GroupKey(t.id), RefDict(t.ch, flag)>> >>

Decoded == res # <<>>

Flag == msg[2]

\* C1: resp_func decodes every well-formed reply (any nesting, child
\* counts, control counts, either flag) to exactly the nested mapping of
\* the reference decode, children and controls in payload order, without
\* raising, and its cursor ends on the last scalar of the payload.
C1_DecodeMatchesGrammar ==
    Decoded =>
        /\ ~res[1].err
        /\ res[1].out = RefReply(src, Flag)
        /\ Consumed(msg, res[1]) = Len(msg)

\* A reply with controls in which a synth with two controls sits in a
\* nested group and a further node follows that group.
C1_Witness ==
    /\ Decoded
    /\ Flag = 1
    /\ Len(src.ch) >= 2
    /\ src.ch[1].kind = "g"
    /\ Len(src.ch[1].ch) >= 1
    /\ src.ch[1].ch[1].kind = "s"
    /\ Len(src.ch[1].ch[1].ctl) = 2

\* The groups and the synths of a decoded mapping.
RECURSIVE CountGroups(_), CountSynths(_)
CountGroups(d) ==
    IF d = <<>> THEN 0
    ELSE (IF d[1][1][1] = "Group" THEN 1 + CountGroups(d[1][2]) ELSE 0)
         + CountGroups(Tail(d))

CountSynths(d) ==
    IF d = <<>> THEN 0
    ELSE (IF d[1][1][1] = "Group" THEN CountSynths(d[1][2]) ELSE 1)
         + CountSynths(Tail(d))

RECURSIVE SynthsEmpty(_)
SynthsEmpty(d) ==
    \A n \in 1..Len(d) :
        IF d[n][1][1] = "Group" THEN SynthsEmpty(d[n][2]) ELSE d[n][2] = <<>>

\* C7: with the controls flag cleared resp_func reads no control-count and
\* no control-pair position, every synth maps to an empty mapping, and the
\* payload is exactly two scalars of header, two per group and three per
\* synth.
C7_FlagClearedReadsNoControls ==
    (Decoded /\ Flag = 0) =>
        /\ ~res[1].err
        /\ res[1].reads = {}
        /\ SynthsEmpty(res[1].out)
        /\ Len(msg) = 2 + 2 * CountGroups(res[1].out) + 3 * CountSynths(res[1].out)

\* A flag-cleared reply in which a synth that has controls on the server
\* is followed by another node, whose id lies where a count would.
C7_Witness ==
    /\ Decoded
    /\ Flag = 0
    /\ Len(src.ch) >= 2
    /\ src.ch[1].kind = "s"
    /\ Len(src.ch[1].ctl) > 0
    /\ CountSynths(res[1].out) >= 1
\* ------------------------------------------------------------------------
\* The node mirror: constructors, free, release, the watch registry and
\* the RootNode overrides.
\* ------------------------------------------------------------------------

\* The messages of the last handler, those inside bundles included.
RECURSIVE MsgsOf(_)
MsgsOf(o) == IF o = <<>> THEN <<>> ELSE o[1].msgs \o MsgsOf(Tail(o))

SpawnCmds == {"/g_new", "/p_new", "/s_new"}

SpawnMsgs == {n \in 1..Len(MsgsOf(out)) : MsgsOf(out)[n].cmd \in SpawnCmds}

Spawned == last.op \in {"Group", "ParGroup", "Synth", "new_paused", "new_replace"}

\* C2: a Group, ParGroup or Synth constructed (by the constructor, by
\* Synth.new_paused or by a convenience constructor after, before, head,
\* tail, replace) with add-action before, after or replace has the group
\* of its target; constructed with head or tail on a group it has the
\* target as its group; and the constructor has sent exactly one spawn
\* message, carrying the new node id, the add-action code and the target's
\* node id.
C2_SpawnSetsGroup ==
    Spawned =>
        LET o == last.obj
            a == last.args[1]
            t == last.args[2]
        IN /\ a \in 0..4
           /\ a \in {2, 3, 4} => nodes[o].group = nodes[t].group
           /\ (a \in {0, 1} /\ IsGroup(t)) => nodes[o].group = t
           /\ Len(out) = 1
           /\ Cardinality(SpawnMsgs) = 1
           /\ \A n \in SpawnMsgs :
                  /\ MsgsOf(out)[n].args = <<nodes[o].node_id, a, nodes[t].node_id>>
                  /\ MsgsOf(out)[n].cmd =
                         (IF last.op = "Group" THEN "/g_new"
                          ELSE IF last.op = "ParGroup" THEN "/p_new" ELSE "/s_new")

\* C11: the group of every record is None or a Group, ParGroup or RootNode
\* record, never a Synth; a node spawned with head or tail on a target that
\* is not a group gets the group of the target.
C11_GroupIsAGroup ==
    /\ \A o \in Objs : nodes[o].group = NoneRef \/ IsGroup(nodes[o].group)
    /\ (Spawned /\ last.args[1] \in {0, 1} /\ ~IsGroup(last.args[2]))
           => nodes[last.obj].group = nodes[last.args[2]].group

\* C20: a synth made by Synth.new_replace (or node.replace), with same_id
\* true or false, has the group of the node it replaces, as a synth made
\* with add_action='addReplace' has.
C20_NewReplaceSetsGroup ==
    last.op = "new_replace" =>
        nodes[last.obj].group = nodes[last.args[2]].group

\* The records met by following group from o, k steps at most.
RECURSIVE GroupChain(_, _)
GroupChain(o, k) ==
    IF k = 0 \/ nodes[o].group = NoneRef THEN {}
    ELSE {nodes[o].group} \cup GroupChain(nodes[o].group, k - 1)

\* C12: in every state reached by spawn, free and the move operations the
\* group references are acyclic: following group from a record never comes
\* back to that record.
C12_GroupRefsAcyclic ==
    \A o \in Objs : o \notin GroupChain(o, Cardinality(Objs))

PlacementCmds == {"/g_head", "/g_tail", "/n_before", "/n_after"}

\* The id of the node a free or placement message frees or moves.
MovedId(m) == IF m.cmd \in {"/g_head", "/g_tail"} THEN m.args[2] ELSE m.args[1]

\* C13: no operation changes the group of the RootNode, and no free or
\* placement message is sent in which node id 0 is the node freed or moved.
C13_RootImmune ==
    /\ nodes[RootObj].group = RootObj
    /\ \A n \in 1..Len(MsgsOf(out)) :
           MsgsOf(out)[n].cmd \in PlacementCmds \cup {"/n_free"}
               => MovedId(MsgsOf(out)[n]) # 0

\* C14: the RootNode has node id 0 and is playing and running in every
\* state, after register with any expectations, unregister and any
\* notification.
C14_RootAlwaysPlaying ==
    /\ nodes[RootObj].node_id = 0
    /\ nodes[RootObj].playing = Known(TRUE)
    /\ nodes[RootObj].running = Known(TRUE)

FrameOps ==
    {"run", "free", "release", "move_before", "move_after", "move_to_head",
     "move_to_tail", "move_node_to_head", "move_node_to_tail"}

C16_FreeAndReleaseDetach ==
    (last.op \in {"free", "release"} /\ last.obj # RootObj /\ last.exc = "")
        => nodes[last.obj].group = NoneRef

\* C17: seti on a synth whose def is not in SynthDescLib logs a warning,
\* sends no message at all and leaves the mirror as it was.
C17_SetiAbortsWithoutDesc ==
    [][(last'.op = "seti" /\ last'.args[1] = 0) =>
          /\ out' = <<Effect("warning")>>
          /\ Sends(out') = {}
          /\ nodes' = nodes
          /\ watched' = watched]_vars

\* seti of two triples on a synth whose def is unknown.
C17_Witness ==
    /\ last.op = "seti"
    /\ last.args = <<0, 2>>
    /\ out = <<Effect("warning")>>

\* C18: every lookup RootNode(server) returns the instance every earlier
\* lookup for that server name returned, lookups for different names
\* return different instances, and no other operation changes that.
C18_OneRootPerServerName ==
    [][/\ \A n \in DOMAIN roots : n \in DOMAIN roots' /\ roots'[n] = roots[n]
       /\ \A n \in DOMAIN roots, m \in DOMAIN roots : roots[n] = roots[m] => n = m
       /\ last'.op = "RootNode" =>
              /\ nodes'[last'.obj].kind = "RootNode"
              /\ roots'[last'.args[2]] = last'.obj
              /\ last'.args[2] \notin DOMAIN roots => last'.obj \notin Objs]_vars

\* The root of the second name looked up again, through another server
\* object of that name, after other nodes were made: the object returned
\* is older than the newest.
C18_Witness ==
    /\ last.op = "RootNode"
    /\ last.args = <<4, 2>>
    /\ last.obj < Cardinality(Objs) - 1
    /\ nodes[RootObj].group # RootObj

\* The placement a token stands for, read off its spelling.
Placement(tok) ==
    IF tok.name = "" THEN tok.num
    ELSE IF tok.name \in {"addToHead", "head", "h"} THEN 0
    ELSE IF tok.name \in {"addToTail", "tail", "t"} THEN 1
    ELSE IF tok.name \in {"addBefore", "before", "b"} THEN 2
    ELSE IF tok.name \in {"addAfter", "after", "a"} THEN 3
    ELSE 4

\* C19: the tokens of one placement (traditional name, simple name, letter
\* and number) resolve to the same code, the codes are exactly 0..4, and
\* the code in the spawn message is the code of the token passed.
C19_TokensCanonical ==
    /\ \A tok \in AllTokens : ActionNumberFor(tok) = Placement(tok)
    /\ {ActionNumberFor(tok) : tok \in AllTokens} = 0..4
    /\ res # <<>> =>
           /\ Cardinality(SpawnMsgs) = 1
           /\ \A n \in SpawnMsgs : MsgsOf(out)[n].args[2] = Placement(res[1])

\* A synth made paused with the letter 'a': the message carries 3.
C19_Witness ==
    /\ res = <<Token("a", -1)>>
    /\ last.op = "new_paused"
    /\ MsgsOf(out)[1].args[2] = 3

\* C3: free(send_flag=True) of a node other than the root leaves its group
\* None and sends exactly one '/n_free' with its node id; free(False)
\* leaves its group None and sends nothing.
C3_FreeDetaches ==
    last.op = "free" =>
        /\ nodes[last.obj].group = NoneRef
        /\ IF last.args[1] = 1
           THEN out = <<SendMsg(Message("/n_free", "", <<nodes[last.obj].node_id>>))>>
           ELSE out = <<>>

\* A registered node of the caller, freed without a message.
C3_Witness ==
    /\ last.op = "free"
    /\ last.args = <<0>>
    /\ last.obj >= 2
    /\ last.obj \in watched

C6_RootCallsAreNoOps ==
    [][(last'.op \in RootOps /\ last'.obj = RootObj) =>
          /\ Sends(out') = {}
          /\ nodes' = nodes
          /\ last'.exc = ""]_vars

C4_TimeoutCancelsListener ==
    \A r \in Reqs :
        (reqs[r].timer = "fired" /\ reqs[r].early = 0) =>
            /\ ~reqs[r].listening
            /\ reqs[r].warned = 1
            /\ reqs[r].calls = <<>>
            /\ reqs[r].raised = 0
            /\ ~reqs[r].done

\* A call timed out unanswered and a well-formed reply arrived after it.
C4_Witness ==
    \E r \in Reqs :
        /\ reqs[r].timer = "fired"
        /\ reqs[r].early = 0
        /\ reqs[r].late >= 1
        /\ reqs[r].warned = 1

\* C9: a reply whose declared counts overrun the payload hands no
\* truncated tree to the callback and is not later reported by the timeout
\* handler as the server having failed to respond.
C9_MalformedIsNotTimeout ==
    \A r \in Reqs :
        reqs[r].raised > 0 => (reqs[r].calls = <<>> /\ reqs[r].warned = 0)

\* C10: the callback of a query_tree call is invoked only with the reply
\* whose root node id is the group of that call.
C10_ListenerKeyedByGroup ==
    \A r \in Reqs :
        \A n \in 1..Len(reqs[r].calls) : reqs[r].calls[n] = reqs[r].gid

\* C21: for each query_tree call the callback and the timeout warning
\* exclude each other and the callback runs at most once; when the
\* well-formed reply to the call arrived before its timeout, the callback
\* was invoked exactly once, with the tree of the queried group, the
\* listener has retired, and the timeout, once expired, has logged nothing.
C21_CallbackXorWarning ==
    \A r \in Reqs :
        /\ Len(reqs[r].calls) <= 1
        /\ ~(reqs[r].calls # <<>> /\ reqs[r].warned > 0)
        /\ reqs[r].answered =>
               /\ reqs[r].calls = <<reqs[r].gid>>
               /\ ~reqs[r].listening
               /\ reqs[r].warned = 0

\* ------------------------------------------------------------------------
\* on_free and wait_for_free.
\* ------------------------------------------------------------------------

\* The step is the arrival of an 'ended' notification for node o.
EndedFor(o) == last'.op = "n_end" /\ last'.obj = o

\* The coroutines suspended in wait_for_free on node o.
Suspended(o) == {i \in 1..Len(cbs) : cbs[i].node = o /\ cbs[i].wait /\ cbs[i].fired = 0}

\* C22: a coroutine suspended in wait_for_free on a node is resumed only
\* by an 'ended' notification for that node, and an 'ended' notification
\* delivered for a watched node resumes every coroutine suspended on it,
\* also when two or more wait on the same node.
C22_EndedResumesEveryWaiter ==
    [][\A o \in Objs :
          /\ ~EndedFor(o) => \A i \in Suspended(o) : cbs'[i].fired = 0
          /\ (EndedFor(o) /\ o \in watched) =>
                 \A i \in Suspended(o) : cbs'[i].fired = 1]_vars

\* The callbacks passed to on_free for node o that were not invoked yet.
Pending(o) == {i \in 1..Len(cbs) : cbs[i].node = o /\ cbs[i].fired = 0}

\* C23: on_free(node, callback) registers the node with the NodeWatcher;
\* the callback is invoked by the first 'ended' notification delivered for
\* the node afterwards, and never more than once.
C23_OnFreeOneShot ==
    [][/\ \A i \in 1..Len(cbs') : cbs'[i].fired <= 1
       /\ last'.op \in {"on_free", "wait_for_free"} =>
              /\ last'.obj \in watched'
              /\ nodes'[last'.obj].playing = Known(TRUE)
              /\ nodes'[last'.obj].running = Known(TRUE)
              /\ cbs'[Len(cbs')] = Callback(last'.obj, last'.op = "wait_for_free")
       /\ \A o \in Objs :
              (EndedFor(o) /\ o \in watched) =>
                  \A i \in Pending(o) : cbs'[i].fired = 1]_vars

\* ------------------------------------------------------------------------
\* The placement operations.
\* ------------------------------------------------------------------------

\* What a placement step must do: node n gets group g, no other field of
\* any node changes, and the one message sent is cmd with the two ids.
Placed(n, g, cmd, ids) ==
    /\ nodes' = [nodes EXCEPT ![n].group = g]
    /\ out' = <<SendMsg(Message(cmd, "", ids))>>

\* C24: each placement operation on a node other than the RootNode sets
\* the group of the moved node and of no other node and sends exactly one
\* placement message: move_before(other) and move_after(other) set it to
\* other.group, None included; group.move_node_to_head(node) and
\* move_node_to_tail(node) to that group; move_to_head(group) and
\* move_to_tail(group) do what the group's move_node_to_head/tail does,
\* with the server's default group when no group is given.
C24_PlacementSetsGroup ==
    [][LET op == last'.op
           o == last'.obj
           id(x) == nodes[x].node_id
       IN /\ (op \in {"move_before", "move_after"} /\ nodes[o].kind # "RootNode") =>
                 LET n == last'.args[1]
                 IN Placed(o, nodes[n].group,
                           IF op = "move_before" THEN "/n_before" ELSE "/n_after",
                           <<id(o), id(n)>>)
          /\ (op \in {"move_node_to_head", "move_node_to_tail"}
                 /\ nodes[last'.args[1]].kind # "RootNode") =>
                 LET n == last'.args[1]
                 IN Placed(n, o, IF op = "move_node_to_head" THEN "/g_head" ELSE "/g_tail",
                           <<id(o), id(n)>>)
          /\ (op \in {"move_to_head", "move_to_tail"} /\ nodes[o].kind # "RootNode") =>
                 LET g == IF last'.args[1] = NoneRef THEN DefaultGroupObj
                          ELSE last'.args[1]
                 IN Placed(o, g, IF op = "move_to_head" THEN "/g_head" ELSE "/g_tail",
                           <<id(g), id(o)>>)]_vars

\* A node the caller made was moved before a node that has no group, and
\* has none itself now.
C24_Witness ==
    /\ last.op = "move_before"
    /\ last.obj \notin {RootObj, DefaultGroupObj}
    /\ nodes[last.args[1]].group = NoneRef
    /\ last.args[1] # last.obj
    /\ nodes[last.obj].group = NoneRef
    /\ Len(out) = 1

\* ------------------------------------------------------------------------
\* The requests that await a reply.
\* ------------------------------------------------------------------------

RequestCmds == {"/n_query", "/s_get", "/s_getn", "/g_queryTree"}

====
